---- MODULE Spec2Model ----
(***************************************************************************)
(* A model of xsys-lang (src/src/main.ts): the parser of the rule language *)
(* (parseInput with its closures parseVariables, parseCondition,           *)
(* parseExpression and parseRules) and the evaluator and rule engine that  *)
(* generateHTML embeds in the page (evaluateExpression and the submit      *)
(* handler of ruleForm).                                                   *)
(*                                                                         *)
(* A JavaScript string is a sequence of one-character strings, so that     *)
(* trim, split, startsWith, substring, includes and replace are computed   *)
(* as the code computes them.  Indices are 0-based as in the source.       *)
(***************************************************************************)
EXTENDS Integers, Sequences, FiniteSets, TLC

VARIABLES
    pc,         \* position of the run under analysis
    input,      \* the text handed to the function under analysis
    output,     \* what the function returned or threw
    answers,    \* the page: the checked radio of each statement (name -> "yes" | "no")
    value,      \* the last value evaluateExpression returned
    data,       \* the page: the LanguageInput generateHTML embedded (rules, allStatements, allResults)
    useModel,   \* the page: whether the sentence encoder has loaded
    paragraph,  \* the page: whether the description textarea holds text
    result,     \* the submit handler: `result` after rules.forEach
    shown,      \* the page: innerHTML of the #result element
    stack,      \* parseExpression taken call by call: the calls not yet begun and the values returned
    pending     \* the page: how many handlers of each kind wait at `await useModel.embed(...)`

vars == <<pc, input, output, answers, value, data, useModel, paragraph, result, shown, stack, pending>>

(***************************************************************************)
(* Bounds of the model.                                                    *)
(***************************************************************************)
MaxOperands == 3    \* identifiers in a parenthesis-free chain  A op B op C
MaxAtoms == 2       \* operands of a chain whose operands may be parenthesised
MaxLines == 2       \* lines of a declaration block or of a rules block
MaxRules == 3       \* rules embedded in the page
MaxKeywordLines == 6 \* keyword lines of a text made of section keywords only
MaxNesting == 2     \* operands of a chain whose calls are followed one by one
MaxPending == 2     \* alike handlers waiting at an await that are counted exactly

(***************************************************************************)
(* JavaScript string primitives.                                           *)
(***************************************************************************)
Min(a, b) == IF a < b THEN a ELSE b
Max(a, b) == IF a > b THEN a ELSE b

\* White space of ECMAScript (WhiteSpace and LineTerminator), the characters
\* String.prototype.trim removes and the regex class \s takes: space, \t, \n,
\* \r, \f, then U+000B, U+00A0, U+1680 and U+FEFF written as the characters
\* themselves. U+2000-U+200A, U+2028, U+2029, U+202F, U+205F and U+3000 are
\* white space too; a TLA+ string cannot hold them, so no text here does.
SpaceChars == {" ", "\t", "\n", "\r", "\f", "", " ", " ", "﻿"}

IsSpace(c) == c \in SpaceChars

\* The characters the regex "." does not take (U+2028 and U+2029 likewise).
LineTerminators == {"\n", "\r"}

RECURSIVE trimStart(_)
trimStart(s) == IF s # <<>> /\ IsSpace(Head(s)) THEN trimStart(Tail(s)) ELSE s

RECURSIVE trimEnd(_)
trimEnd(s) ==
    IF s # <<>> /\ IsSpace(s[Len(s)]) THEN trimEnd(SubSeq(s, 1, Len(s) - 1)) ELSE s

trim(s) == trimEnd(trimStart(s))

\* s.substring(a, b): both ends clamped to [0, s.length], swapped when a > b.
substring(s, a, b) ==
    LET ca == Max(0, Min(a, Len(s)))
        cb == Max(0, Min(b, Len(s)))
    IN  SubSeq(s, Min(ca, cb) + 1, Max(ca, cb))

\* s.substring(a)
substringFrom(s, a) == substring(s, a, Len(s))

\* s.startsWith(pat, i)
startsWith(s, pat, i) ==
    /\ i >= 0
    /\ i + Len(pat) <= Len(s)
    /\ SubSeq(s, i + 1, i + Len(pat)) = pat

\* s.endsWith(pat)
endsWith(s, pat) == startsWith(s, pat, Len(s) - Len(pat))

\* s.indexOf(pat, from): the first index >= from where pat occurs, or -1.
indexOf(s, pat, from) ==
    LET hits == {i \in Max(0, from)..Len(s) : startsWith(s, pat, i)}
    IN  IF hits = {} THEN -1 ELSE CHOOSE i \in hits : \A j \in hits : i <= j

\* s.includes(pat)
includes(s, pat) == indexOf(s, pat, 0) >= 0

\* s.split(sep) for a one-character separator: "" splits into [""].
RECURSIVE split(_, _)
split(s, sep) ==
    LET i == indexOf(s, <<sep>>, 0)
    IN  IF i < 0 THEN <<s>>
        ELSE <<substring(s, 0, i)>> \o split(substringFrom(s, i + 1), sep)

\* The lower-case form of the letters the parser's regexes name.
toLower(c) ==
    CASE c = "N" -> "n" [] c = "O" -> "o" [] c = "T" -> "t" [] OTHER -> c

\* The regex class \w.
WordChars ==
    { "a", "b", "c", "d", "e", "f", "g", "h", "i", "j", "k", "l", "m",
      "n", "o", "p", "q", "r", "s", "t", "u", "v", "w", "x", "y", "z",
      "A", "B", "C", "D", "E", "F", "G", "H", "I", "J", "K", "L", "M",
      "N", "O", "P", "Q", "R", "S", "T", "U", "V", "W", "X", "Y", "Z",
      "0", "1", "2", "3", "4", "5", "6", "7", "8", "9", "_" }

(***************************************************************************)
(* Outcomes: a function returns a value or throws a SyntaxError.  A        *)
(* message is the sequence of the pieces the template literal joins: a     *)
(* literal, a block name or a number as one string, an interpolated line   *)
(* or inner message piece by piece.                                        *)
(***************************************************************************)
Ok(v) == [ok |-> TRUE, value |-> v]
Throw(msg) == [ok |-> FALSE, error |-> [name |-> "SyntaxError", message |-> msg]]

None == [ok |-> FALSE, error |-> [name |-> "none", message |-> <<>>]]

(***************************************************************************)
(* parseCondition (the closure of parseInput).                             *)
(***************************************************************************)
\* The index of the first match of /NOT/i in s, or -1.
matchNOTi(s) ==
    LET hits == {i \in 0..Len(s) :
                    /\ i + 3 <= Len(s)
                    /\ toLower(s[i + 1]) = "n"
                    /\ toLower(s[i + 2]) = "o"
                    /\ toLower(s[i + 3]) = "t"}
    IN  IF hits = {} THEN -1 ELSE CHOOSE i \in hits : \A j \in hits : i <= j

\* condStr.replace(/NOT/i, ''): the first match removed.
replaceNOTi(s) ==
    LET i == matchNOTi(s)
    IN  IF i < 0 THEN s ELSE substring(s, 0, i) \o substringFrom(s, i + 3)

\* const negated = condStr.includes('NOT')
negatedOf(condStr) == includes(condStr, <<"N", "O", "T">>)

parseCondition(condStr) ==
    LET negated == negatedOf(condStr)
        variable == trim(replaceNOTi(condStr))
    IN  IF variable = <<>>
        THEN Throw(<<"Invalid condition: \"">> \o condStr
                   \o <<"\". Expected format: \"NOT <variable>\" or \"<variable>\"">>)
        ELSE Ok([variable |-> variable, negated |-> negated])

(***************************************************************************)
(* parseExpression (the closure of parseInput).                            *)
(***************************************************************************)
AND == <<"A", "N", "D">>
OR == <<"O", "R">>

\* The loop of lines 90-112 from index i with nesting depth `depth`: the first
\* index at depth 0 where AND or OR starts, or -1 when the loop runs out.
RECURSIVE scanOperator(_, _, _)
scanOperator(exprStr, i, depth) ==
    IF i >= Len(exprStr) THEN -1
    ELSE LET char == exprStr[i + 1]
             d == IF char = "(" THEN depth + 1
                  ELSE IF char = ")" THEN depth - 1 ELSE depth
         IN  IF d = 0 /\ (startsWith(exprStr, AND, i) \/ startsWith(exprStr, OR, i))
             THEN i
             ELSE scanOperator(exprStr, i + 1, d)

\* A slip: the split taken at the last operator of the text instead of the first.
findOperatorLast(exprStr) ==
    LET hits == {i \in 0..Len(exprStr) :
                    startsWith(exprStr, AND, i) \/ startsWith(exprStr, OR, i)}
    IN  IF hits = {} THEN -1 ELSE CHOOSE i \in hits : \A j \in hits : i >= j

findOperator(exprStr) == scanOperator(exprStr, 0, 0)

\* const operator = exprStr.substring(i, i + 3).trim()
operatorAt(exprStr, i) == trim(substring(exprStr, i, i + 3))

\* exprStr.startsWith('(') && exprStr.endsWith(')')
isWrapped(exprStr) == startsWith(exprStr, <<"(">>, 0) /\ endsWith(exprStr, <<")">>)

\* The node of lines 105-110 from the parsed sides; a side that threw ends
\* the parse with its error, the left side first.
logicalNode(operator, l, r) ==
    IF ~l.ok THEN l
    ELSE IF ~r.ok THEN r
    ELSE Ok([type |-> "logical", operator |-> operator,
             left |-> l.value, right |-> r.value])

\* The leaf of lines 115-118.
conditionNode(c) ==
    IF ~c.ok THEN c ELSE Ok([type |-> "condition", condition |-> c.value])

RECURSIVE parseExpression(_)

\* Lines 96-110: the split of the trimmed text at the operator found at i.
splitAt(exprStr, operator, left, right) ==
    IF left = <<>> \/ right = <<>>
    THEN Throw(<<"Invalid logical expression: \"">> \o exprStr
               \o <<"\". ",
                    "Expected format: \"<expression> AND <expression>\" or \"<expression> OR <expression>\"">>)
    ELSE logicalNode(operator, parseExpression(left), parseExpression(right))

\* Lines 90-118: the trimmed, unwrapped text with i the index findOperator gave.
parseAt(exprStr, i) ==
    IF i >= 0
    THEN splitAt(exprStr, operatorAt(exprStr, i),
                 trim(substring(exprStr, 0, i)), trim(substringFrom(exprStr, i + 3)))
    ELSE conditionNode(parseCondition(exprStr))

\* Lines 86-118 on the trimmed text.
parseTrimmed(exprStr) ==
    IF isWrapped(exprStr)
    THEN parseExpression(substring(exprStr, 1, Len(exprStr) - 1))
    ELSE parseAt(exprStr, findOperator(exprStr))

parseExpression(str) == parseTrimmed(trim(str))

(***************************************************************************)
(* parseVariables (the closure of parseInput).                             *)
(***************************************************************************)
\* .filter(line => line.trim())
RECURSIVE nonBlank(_)
nonBlank(lines) ==
    IF lines = <<>> THEN <<>>
    ELSE IF trim(Head(lines)) # <<>> THEN <<Head(lines)>> \o nonBlank(Tail(lines))
    ELSE nonBlank(Tail(lines))

\* .map(part => part.trim())
RECURSIVE trimAll(_)
trimAll(parts) ==
    IF parts = <<>> THEN <<>> ELSE <<trim(Head(parts))>> \o trimAll(Tail(parts))

\* The callback of .map, lines 61-71: one line, with its index in the filtered array.
parseVariable(line, index, blockName) ==
    LET parts == trimAll(split(line, "="))
    IN  IF Len(parts) # 2
        THEN Throw(<<"Invalid variable declaration in ", blockName, " block at line ",
                     ToString(index + 1), ": \"">> \o line
                   \o <<"\". ", "Expected format: <name> = <value>">>)
        ELSE Ok([name |-> parts[1], value |-> parts[2]])

\* .map over the filtered lines from `index` on: the first throw ends it.
RECURSIVE mapVariables(_, _, _)
mapVariables(lines, index, blockName) ==
    IF index >= Len(lines) THEN Ok(<<>>)
    ELSE LET v == parseVariable(lines[index + 1], index, blockName)
         IN  IF ~v.ok THEN v
             ELSE LET rest == mapVariables(lines, index + 1, blockName)
                  IN  IF ~rest.ok THEN rest ELSE Ok(<<v.value>> \o rest.value)

parseVariables(block, blockName) ==
    mapVariables(nonBlank(split(block, "\n")), 0, blockName)

(***************************************************************************)
(* parseRules (the closure of parseInput).                                 *)
(***************************************************************************)
IF_ == <<"I", "F">>
THEN_ == <<"T", "H", "E", "N">>

\* Whether line[from .. to-1] is all white space (\s).
allSpace(line, from, to) == \A k \in from..(to - 1) : IsSpace(line[k + 1])

\* The end of the longest run of characters of `class` that starts at index from.
RECURSIVE runEnd(_, _, _)
runEnd(line, from, class) ==
    IF from < Len(line) /\ line[from + 1] \in class
    THEN runEnd(line, from + 1, class) ELSE from

\* The ways /IF\s+(.*)\s+THEN\s+(\w+)/ can lie on the line: IF at i, white
\* space up to a, group 1 from a to e without a line terminator, white space
\* from e to t, THEN at t, then white space and a word.
ruleMatches(line) ==
    LET ifs == {i \in 0..Len(line) : startsWith(line, IF_, i)}
        thens == {t \in 1..Len(line) :
                    /\ startsWith(line, THEN_, t)
                    /\ runEnd(line, t + 4, SpaceChars) > t + 4
                    /\ runEnd(line, runEnd(line, t + 4, SpaceChars), WordChars)
                           > runEnd(line, t + 4, SpaceChars)}
        from(i) == (i + 3)..runEnd(line, i + 2, SpaceChars)
        upTo(t) == {e \in 0..(t - 1) : allSpace(line, e, t)}
    IN  UNION {{m \in [i : {i}, a : from(i), e : upTo(t), t : {t}] :
                  /\ m.a <= m.e
                  /\ \A k \in m.a..(m.e - 1) : line[k + 1] \notin LineTerminators}
               : i \in ifs, t \in thens}

\* line.match(...): the match a backtracking matcher finds first: the leftmost
\* IF, then the longest \s+ behind it, then the longest group 1, then the
\* longest \s+ before THEN.
matchRule(line) ==
    LET ms == ruleMatches(line)
    IN  IF ms = {} THEN [matched |-> FALSE, conditionsStr |-> <<>>, result |-> <<>>]
        ELSE LET m == CHOOSE m \in ms : \A n \in ms :
                        \/ m.i < n.i
                        \/ m.i = n.i /\ m.a > n.a
                        \/ m.i = n.i /\ m.a = n.a /\ m.e > n.e
                        \/ m.i = n.i /\ m.a = n.a /\ m.e = n.e /\ m.t >= n.t
                 w == runEnd(line, m.t + 4, SpaceChars)
             IN  [matched |-> TRUE,
                  conditionsStr |-> substring(line, m.a, m.e),
                  result |-> substring(line, w, runEnd(line, w, WordChars))]

\* The callback of .map, lines 126-154: one line, with its index in the filtered array.
parseRule(line, index) ==
    LET match == matchRule(line)
    IN  IF ~match.matched
        THEN Throw(<<"Invalid rule at line ", ToString(index + 1), ": \"">> \o line
                   \o <<"\". ", "Expected format: \"IF <condition> THEN <result>\"">>)
        ELSE LET e == parseExpression(match.conditionsStr)
             IN  IF ~e.ok
                 THEN Throw(<<"Error in rule at line ", ToString(index + 1), ": \"">> \o line
                            \o <<"\". ", "Details: ">> \o e.error.message)
                 ELSE Ok([expression |-> e.value, result |-> match.result])

RECURSIVE mapRules(_, _)
mapRules(lines, index) ==
    IF index >= Len(lines) THEN Ok(<<>>)
    ELSE LET r == parseRule(lines[index + 1], index)
         IN  IF ~r.ok THEN r
             ELSE LET rest == mapRules(lines, index + 1)
                  IN  IF ~rest.ok THEN rest ELSE Ok(<<r.value>> \o rest.value)

parseRules(block) == mapRules(nonBlank(split(block, "\n")), 0)

(***************************************************************************)
(* parseInput.                                                             *)
(***************************************************************************)
stmt == <<"s", "t", "m", "t">>
endstmt == <<"e", "n", "d", "s", "t", "m", "t">>
results == <<"r", "e", "s", "u", "l", "t", "s">>
endresults == <<"e", "n", "d", "r", "e", "s", "u", "l", "t", "s">>
rules == <<"r", "u", "l", "e", "s">>
endrules == <<"e", "n", "d", "r", "u", "l", "e", "s">>

\* The match of /<open>\s*([\s\S]*?)\s*<close>/ in the text: it starts at the
\* first <open> that has a <close> behind it and ends at the first such <close>;
\* group 1 is the text between them without the white space at its ends.
matchBlock(text, open, close) ==
    LET i == indexOf(text, open, 0)
        j == IF i < 0 THEN -1 ELSE indexOf(text, close, i + Len(open))
    IN  [found |-> j >= 0,
         block |-> IF j >= 0 THEN trim(substring(text, i + Len(open), j)) ELSE <<>>]

MissingBlock(blockName) ==
    Throw(<<"Missing \"", blockName, "\" block. Ensure the input contains a \"",
            blockName, "\" section.">>)

\* The try block of lines 157-170: the three sections in turn, the first throw
\* caught and thrown again behind the prefix.
parseBlocks(stmtBlock, resultsBlock, rulesBlock) ==
    LET statements == parseVariables(stmtBlock, "stmt")
        resultVars == parseVariables(resultsBlock, "results")
        ruleList == parseRules(rulesBlock)
        thrown == IF ~statements.ok THEN statements
                  ELSE IF ~resultVars.ok THEN resultVars ELSE ruleList
    IN  IF statements.ok /\ resultVars.ok /\ ruleList.ok
        THEN Ok([statements |-> statements.value,
                 results |-> resultVars.value,
                 rules |-> ruleList.value])
        ELSE Throw(<<"Failed to parse input: ">> \o thrown.error.message)

parseInput(text) ==
    LET s == matchBlock(text, stmt, endstmt)
        r == matchBlock(text, results, endresults)
        u == matchBlock(text, rules, endrules)
    IN  IF ~s.found THEN MissingBlock("stmt")
        ELSE IF ~r.found THEN MissingBlock("results")
        ELSE IF ~u.found THEN MissingBlock("rules")
        ELSE parseBlocks(s.block, r.block, u.block)

(***************************************************************************)
(* evaluateExpression (the script generateHTML embeds).                    *)
(***************************************************************************)
\* `answers` is a plain object ({} of line 410): a name it has no own property
\* of is read from Object.prototype, where __proto__ is the accessor that gives
\* the prototype object and the other names below are functions.
__proto__ == <<"_", "_", "p", "r", "o", "t", "o", "_", "_">>
ObjectPrototype ==
    { <<"c", "o", "n", "s", "t", "r", "u", "c", "t", "o", "r">>,
      <<"h", "a", "s", "O", "w", "n", "P", "r", "o", "p", "e", "r", "t", "y">>,
      <<"i", "s", "P", "r", "o", "t", "o", "t", "y", "p", "e", "O", "f">>,
      <<"p", "r", "o", "p", "e", "r", "t", "y", "I", "s", "E", "n", "u", "m", "e", "r", "a", "b", "l", "e">>,
      <<"t", "o", "L", "o", "c", "a", "l", "e", "S", "t", "r", "i", "n", "g">>,
      <<"t", "o", "S", "t", "r", "i", "n", "g">>,
      <<"v", "a", "l", "u", "e", "O", "f">>,
      <<"_", "_", "d", "e", "f", "i", "n", "e", "G", "e", "t", "t", "e", "r", "_", "_">>,
      <<"_", "_", "d", "e", "f", "i", "n", "e", "S", "e", "t", "t", "e", "r", "_", "_">>,
      <<"_", "_", "l", "o", "o", "k", "u", "p", "G", "e", "t", "t", "e", "r", "_", "_">>,
      <<"_", "_", "l", "o", "o", "k", "u", "p", "S", "e", "t", "t", "e", "r", "_", "_">> }

\* answers[name]: the own property, else the inherited one (written here as the
\* typeof of the value, which is no string a radio holds), else undefined.
lookup(ans, name) ==
    IF name \in DOMAIN ans THEN ans[name]
    ELSE IF name = __proto__ THEN "object"
    ELSE IF name \in ObjectPrototype THEN "function"
    ELSE "undefined"

\* A slip: negation read as "not yes".
evaluateConditionComplement(condition, ans) ==
    LET answer == lookup(ans, condition.variable)
    IN  IF condition.negated THEN answer # "yes" ELSE answer = "yes"

\* The condition branch, lines 319-325.
evaluateCondition(condition, ans) ==
    LET answer == lookup(ans, condition.variable)
    IN  IF condition.negated THEN answer = "no" ELSE answer = "yes"

\* The combination of the two sides, lines 329-335.
combine(operator, left, right) ==
    IF operator = AND THEN left /\ right
    ELSE IF operator = OR THEN left \/ right
    ELSE FALSE

RECURSIVE evaluateExpression(_, _)
evaluateExpression(expr, ans) ==
    IF expr.type = "condition" THEN evaluateCondition(expr.condition, ans)
    ELSE IF expr.type = "logical"
    THEN LET left == evaluateExpression(expr.left, ans)
             right == evaluateExpression(expr.right, ans)
         IN  combine(expr.operator, left, right)
    ELSE FALSE

(***************************************************************************)
(* Condition texts the expression parser is run on.                        *)
(***************************************************************************)
Sp == <<" ">>
Operators == {AND, OR}

HANDLE == <<"H", "A", "N", "D", "L", "E">>
MONITOR == <<"M", "O", "N", "I", "T", "O", "R">>
ERROR == <<"E", "R", "R", "O", "R">>
NOTE == <<"N", "O", "T", "E">>

\* Parenthesis-free chains  id op id op ... id  of up to MaxOperands identifiers.
ChainIds == {<<"A">>, <<"B">>, <<"C">>}

RECURSIVE Chains(_)
Chains(n) ==
    IF n <= 1 THEN ChainIds
    ELSE {id \o Sp \o op \o Sp \o rest :
            id \in ChainIds, op \in Operators, rest \in Chains(n - 1)}

ChainInputs == UNION {Chains(n) : n \in 1..MaxOperands}

\* Leaves: an identifier, alone or behind a spelling of NOT.
NotForms == {<<>>, <<"N", "O", "T", " ">>, <<"n", "o", "t", " ">>, <<"N", "o", "t", " ">>}
LeafIds ==
    {<<"x">>, <<"n", "o", "_", "b", "o", "o", "t">>, HANDLE, MONITOR, ERROR, NOTE, __proto__}
LeafInputs == {neg \o id : neg \in NotForms, id \in LeafIds}

\* Chains of up to MaxAtoms operands, each bare or parenthesised, the operators
\* of a chain written with or without a blank on either side, and the single
\* operands wrapped once more.
Paren(s) == <<"(">> \o s \o <<")">>
Atoms ==
    { <<"a">>, <<"b">>, Paren(<<"a">>), Paren(<<"b">>),
      Paren(<<"a">> \o Sp \o OR \o Sp \o <<"b">>),
      Paren(<<"a">> \o Sp \o AND \o Sp \o <<"b">>) }
Glues == {Sp, <<>>}

RECURSIVE AtomChains(_, _, _)
AtomChains(n, before, after) ==
    IF n <= 1 THEN Atoms
    ELSE {atom \o before \o op \o after \o rest :
            atom \in Atoms, op \in Operators, rest \in AtomChains(n - 1, before, after)}

ParenInputs ==
    UNION {AtomChains(n, before, after) :
              n \in 1..MaxAtoms, before \in Glues, after \in Glues}
        \cup {Paren(atom) : atom \in Atoms}

\* README.md: IF graphics_issues AND (fan_noise OR no_boot) THEN gpu_issue
graphics_issues ==
    <<"g", "r", "a", "p", "h", "i", "c", "s", "_", "i", "s", "s", "u", "e", "s">>
fan_noise == <<"f", "a", "n", "_", "n", "o", "i", "s", "e">>
no_boot == <<"n", "o", "_", "b", "o", "o", "t">>
ReadmeCondition ==
    graphics_issues \o Sp \o AND \o Sp
        \o Paren(fan_noise \o Sp \o OR \o Sp \o no_boot)

\* Texts with an operator that lacks a side, an empty leaf, an identifier
\* that holds an operator's letters, white space other than blanks (U+00A0
\* in front, U+000B behind).
OddInputs ==
    { <<>>, <<"a">> \o Sp \o AND, OR \o Sp \o <<"b">>, <<"N", "O", "T">>,
      Paren(<<>>), HANDLE \o Sp \o AND \o Sp \o <<"B">>,
      <<"a">> \o Sp \o <<"O", "R", "x">> \o Sp \o <<"b">>,
      <<" ", "a">> \o Sp \o AND \o Sp \o <<"b", "">> }

ExprInputs ==
    ChainInputs \cup LeafInputs \cup ParenInputs \cup OddInputs \cup {ReadmeCondition}

(***************************************************************************)
(* Answer mappings evaluateExpression is run on.                           *)
(***************************************************************************)
\* The variables an expression tree names.
RECURSIVE variablesOf(_)
variablesOf(expr) ==
    IF expr.type = "condition" THEN {expr.condition.variable}
    ELSE variablesOf(expr.left) \cup variablesOf(expr.right)

\* A radio's value is "yes" or "no" (lines 180-181); "Yes" stands for any other value
\* a caller of the function may pass.
AnswerValues == {"yes", "no", "Yes"}

AnswerMaps(names) == UNION {[keys -> AnswerValues] : keys \in SUBSET names}

(***************************************************************************)
(* The expression parser and the evaluator as a run: a condition text is   *)
(* parsed, then the tree is evaluated against an answer mapping.           *)
(***************************************************************************)
NoData == [rules |-> <<>>, allStatements |-> <<>>, allResults |-> <<>>]

\* No call of parseExpression under way.
NoCalls == [calls |-> <<>>, values |-> <<>>]

\* No handler waits.
NoneWaiting == [h \in {} |-> 0]

\* More than MaxPending.
Many == MaxPending + 1

PageIdle ==
    /\ data = NoData
    /\ useModel = FALSE
    /\ paragraph = FALSE
    /\ result = <<>>
    /\ shown = <<>>
    /\ stack = NoCalls
    /\ pending = NoneWaiting

InitExpr ==
    /\ pc = "start"
    /\ input \in ExprInputs
    /\ output = None
    /\ answers = <<>>
    /\ value = FALSE
    /\ PageIdle

ParseExpr ==
    /\ pc = "start"
    /\ output' = parseExpression(input)
    /\ pc' = "parsed"
    /\ UNCHANGED <<input, answers, value, data, useModel, paragraph, result, shown, stack, pending>>

Evaluate ==
    /\ pc = "parsed"
    /\ output.ok
    /\ \E ans \in AnswerMaps(variablesOf(output.value)) :
          /\ answers' = ans
          /\ value' = evaluateExpression(output.value, ans)
    /\ pc' = "evaluated"
    /\ UNCHANGED <<input, output, data, useModel, paragraph, result, shown, stack, pending>>

NextExpr == ParseExpr \/ Evaluate

SpecExpr == InitExpr /\ [][NextExpr]_vars

(***************************************************************************)
(* Properties of the expression parser and the evaluator.                  *)
(***************************************************************************)
\* The two variants of Expression.
Cond(variable, negated) ==
    [type |-> "condition", condition |-> [variable |-> variable, negated |-> negated]]
Logical(operator, left, right) ==
    [type |-> "logical", operator |-> operator, left |-> left, right |-> right]

\* C2: a Condition evaluates to true iff the variable's answer is exactly "yes"
\* (not negated) or exactly "no" (negated); an unanswered variable or any other
\* value gives false under both polarities.
C2_ConditionTruthTable ==
    (pc = "evaluated" /\ output.value.type = "condition") =>
        LET c == output.value.condition
            answered == c.variable \in DOMAIN answers
        IN  /\ ~c.negated => (value <=> (answered /\ answers[c.variable] = "yes"))
            /\ c.negated => (value <=> (answered /\ answers[c.variable] = "no"))
            /\ ~answered => value = FALSE

\* C2's case: a negated condition on an unanswered variable has been evaluated, to false.
C2_Witness ==
    /\ pc = "evaluated"
    /\ output.value.type = "condition"
    /\ output.value.condition.negated
    /\ output.value.condition.variable \notin DOMAIN answers
    /\ value = FALSE

\* The text the parser splits: the trimmed text with the wrapping parentheses
\* of lines 86-88 taken off.
RECURSIVE unwrapped(_)
unwrapped(str) ==
    LET exprStr == trim(str)
    IN  IF isWrapped(exprStr) THEN unwrapped(substring(exprStr, 1, Len(exprStr) - 1))
        ELSE exprStr

\* C3: a Logical node the parser produced evaluates to left AND right when the
\* text has AND at the split, and to left OR right when it has OR there.
C3_LogicalFollowsText ==
    (pc = "evaluated" /\ output.value.type = "logical") =>
        LET exprStr == unwrapped(input)
            i == findOperator(exprStr)
            left == evaluateExpression(output.value.left, answers)
            right == evaluateExpression(output.value.right, answers)
        IN  value = IF startsWith(exprStr, AND, i) THEN left /\ right ELSE left \/ right

\* An identifier in which no operator and no NOT is spelled.
PlainIdent(t) ==
    /\ t # <<>>
    /\ \A k \in 1..Len(t) : t[k] \in WordChars
    /\ ~includes(t, AND)
    /\ ~includes(t, OR)
    /\ matchNOTi(t) < 0

\* Identifiers separated by AND/OR tokens, one blank between tokens.
IsChain(toks) ==
    /\ Len(toks) % 2 = 1
    /\ \A k \in 1..Len(toks) :
          IF k % 2 = 1 THEN PlainIdent(toks[k]) ELSE toks[k] \in Operators

\* The right-nested tree of a chain: the first operator at the root.
RECURSIVE RightNested(_)
RightNested(toks) ==
    IF Len(toks) <= 1 THEN Cond(toks[1], FALSE)
    ELSE Logical(toks[2], Cond(toks[1], FALSE), RightNested(SubSeq(toks, 3, Len(toks))))

A_AND_B_OR_C == <<"A", " ", "A", "N", "D", " ", "B", " ", "O", "R", " ", "C">>
A_OR_B_AND_C == <<"A", " ", "O", "R", " ", "B", " ", "A", "N", "D", " ", "C">>

\* C4: a parenthesis-free chain of identifiers separated by AND/OR tokens parses
\* to the right-nested tree whose root is the leftmost operator, whatever the
\* operators are; "A AND B OR C" gives AND(A, OR(B, C)) and "A OR B AND C" gives
\* OR(A, AND(B, C)).
C4_LeftmostSplit ==
    pc = "parsed" =>
        /\ IsChain(split(input, " ")) => output = Ok(RightNested(split(input, " ")))
        /\ input = A_AND_B_OR_C =>
              output = Ok(Logical(AND, Cond(<<"A">>, FALSE),
                                  Logical(OR, Cond(<<"B">>, FALSE), Cond(<<"C">>, FALSE))))
        /\ input = A_OR_B_AND_C =>
              output = Ok(Logical(OR, Cond(<<"A">>, FALSE),
                                  Logical(AND, Cond(<<"B">>, FALSE), Cond(<<"C">>, FALSE))))

\* C4's case: "A AND B OR C" has been parsed, with AND at the root.
C4_Witness ==
    /\ pc = "parsed"
    /\ input = A_AND_B_OR_C
    /\ output.ok
    /\ output.value.operator = AND
    /\ output.value.right.type = "logical"

\* C5: the README's condition parses with the parenthesised OR as the right
\* child of AND, and "(x) op (y)", whose first "(" and last ")" do not match
\* each other, parses to Logical(op, x, y).
C5_ParenthesisHandling ==
    pc # "start" =>
        /\ input = ReadmeCondition =>
              output = Ok(Logical(AND, Cond(graphics_issues, FALSE),
                                  Logical(OR, Cond(fan_noise, FALSE), Cond(no_boot, FALSE))))
        /\ \A x \in {<<"a">>, <<"b">>}, y \in {<<"a">>, <<"b">>}, op \in Operators :
              input = Paren(x) \o Sp \o op \o Sp \o Paren(y) =>
                  output = Ok(Logical(op, Cond(x, FALSE), Cond(y, FALSE)))

\* C6: a leaf made of a plain identifier behind an optional NOT, in any letter
\* case, parses to that identifier, negated exactly when a NOT was stripped.
C6_NotAnyCase ==
    pc # "start" =>
        \A neg \in NotForms, id \in LeafIds :
            (PlainIdent(id) /\ input = neg \o id) => output = Ok(Cond(id, neg # <<>>))

\* C7: an identifier, alone or behind NOT, parses to a Condition on the whole
\* identifier, also when AND, OR or NOT is spelled inside it.
C7_IdentifierIsLeaf ==
    pc # "start" =>
        \A neg \in {<<>>, <<"N", "O", "T", " ">>}, id \in LeafIds :
            input = neg \o id => output = Ok(Cond(id, neg # <<>>))

\* The shape the data model gives a tree: a Logical node has AND or OR and two
\* well-formed children, a Condition node a variable that is not empty.
RECURSIVE wellFormed(_)
wellFormed(expr) ==
    IF expr.type = "condition" THEN expr.condition.variable # <<>>
    ELSE /\ expr.type = "logical"
         /\ expr.operator \in Operators
         /\ wellFormed(expr.left)
         /\ wellFormed(expr.right)

\* The text behind the operator token that starts at index i.
afterToken(exprStr, i) ==
    substringFrom(exprStr, i + (IF startsWith(exprStr, AND, i) THEN 3 ELSE 2))

\* C12: every tree of a successful parse is well-formed; a text whose first
\* operator lacks a side fails with "Invalid logical expression", and a leaf
\* that is empty or a bare NOT fails with "Invalid condition".
C12_TreeWellFormed ==
    pc # "start" =>
        LET exprStr == unwrapped(input)
            i == findOperator(exprStr)
        IN  /\ output.ok => wellFormed(output.value)
            /\ (i >= 0 /\ (trim(substring(exprStr, 0, i)) = <<>>
                              \/ trim(afterToken(exprStr, i)) = <<>>))
                  => (~output.ok /\ output.error.message[1] = "Invalid logical expression: \"")
            /\ (i < 0 /\ exprStr \in {<<>>, <<"N", "O", "T">>})
                  => (~output.ok /\ output.error.message[1] = "Invalid condition: \"")

(***************************************************************************)
(* Declaration blocks parseVariables is run on.                            *)
(***************************************************************************)
NL == <<"\n">>

\* lines.join('\n')
RECURSIVE joinLines(_)
joinLines(lines) ==
    IF lines = <<>> THEN <<>>
    ELSE IF Len(lines) = 1 THEN lines[1]
    ELSE lines[1] \o NL \o joinLines(Tail(lines))

SeqsUpTo(S, n) == UNION {[1..k -> S] : k \in 0..n}

DeclLines ==
    { <<" ", "a", " ", "=", " ", "Q", "1">>,       \* "name = text"
      <<"b", "=", "x", "=", "y">>,                 \* the text holds an "="
      <<"c", " ", "=">>,                           \* nothing behind the "="
      <<"b", "a", "d">>,                           \* no "="
      <<" ", " ">> }                               \* a blank line

\* A section with an empty line between a declaration and a line without "=".
GappedDecl == joinLines(<<<<"a", " ", "=", " ", "Q", "1">>, <<>>, <<"b", "a", "d">>>>)

DeclBlocks == {joinLines(ls) : ls \in SeqsUpTo(DeclLines, MaxLines)} \cup {GappedDecl}

InitDecl ==
    /\ pc = "start"
    /\ input \in [block : DeclBlocks, blockName : {"stmt", "results"}]
    /\ output = None
    /\ answers = <<>>
    /\ value = FALSE
    /\ PageIdle

ParseVariables ==
    /\ pc = "start"
    /\ output' = parseVariables(input.block, input.blockName)
    /\ pc' = "parsed"
    /\ UNCHANGED <<input, answers, value, data, useModel, paragraph, result, shown, stack, pending>>

NextDecl == ParseVariables

SpecDecl == InitDecl /\ [][NextDecl]_vars

\* The text of a line before its first "=" and the text behind it.
beforeFirstEq(line) == trim(substring(line, 0, indexOf(line, <<"=">>, 0)))
afterFirstEq(line) == trim(substringFrom(line, indexOf(line, <<"=">>, 0) + 1))

\* C8: every non-blank line that holds an "=" gives the Variable split at the
\* first "="; only a line without "=" fails; one Variable per non-blank line, in
\* line order.
C8_SplitAtFirstEq ==
    pc # "start" =>
        LET lines == nonBlank(split(input.block, "\n"))
        IN  IF \A k \in 1..Len(lines) : includes(lines[k], <<"=">>)
            THEN output = Ok([k \in 1..Len(lines) |->
                                [name |-> beforeFirstEq(lines[k]),
                                 value |-> afterFirstEq(lines[k])]])
            ELSE ~output.ok

(***************************************************************************)
(* Source texts parseInput is run on.                                      *)
(***************************************************************************)
\* Texts made of section keywords, one per line, in any order and number.
KeywordLines == {stmt, endstmt, results, endresults, rules, endrules}
KeywordTexts(n) == {joinLines(ls) : ls \in SeqsUpTo(KeywordLines, n)}

\* Programs with the three sections in the documented order.
RuleLines ==
    { <<"I", "F", " ", "a", " ", "T", "H", "E", "N", " ", "r", "1">>,
      <<"I", "F", " ", "a", " ", "A", "N", "D", " ", "T", "H", "E", "N", " ", "r", "1">>,
      <<"I", "F", " ", "N", "O", "T", " ", "T", "H", "E", "N", " ", "r", "1">>,
      <<"a", " ", "T", "H", "E", "N", " ", "r", "1">>,
      <<"I", "F", " ", "a", "\r", " ", "T", "H", "E", "N", " ", "r", "1", "\r">>,
      <<" ", " ">> }

\* A section with an empty line between a rule and a line without IF.
GappedRules ==
    joinLines(<<<<"I", "F", " ", "a", " ", "T", "H", "E", "N", " ", "r", "1">>, <<>>,
                <<"a", " ", "T", "H", "E", "N", " ", "r", "1">>>>)

RuleBlocks == {joinLines(ls) : ls \in SeqsUpTo(RuleLines, MaxLines)} \cup {GappedRules}

ResultBlocks == {<<"r", "1", " ", "=", " ", "O", "1">>, <<"r", "1">>, <<>>}

ProgramText(stmtBlock, resultsBlock, rulesBlock) ==
    joinLines(<<stmt, stmtBlock, endstmt, <<>>, results, resultsBlock, endresults,
                <<>>, rules, rulesBlock, endrules>>)

ProgramTexts(blocks) ==
    {ProgramText(s, r, u) : s \in blocks, r \in ResultBlocks, u \in RuleBlocks}

InputTexts(n) == KeywordTexts(n) \cup ProgramTexts(DeclBlocks)

InitInput ==
    /\ pc = "start"
    /\ input \in InputTexts(MaxKeywordLines)
    /\ output = None
    /\ answers = <<>>
    /\ value = FALSE
    /\ PageIdle

ParseInput ==
    /\ pc = "start"
    /\ output' = parseInput(input)
    /\ pc' = "parsed"
    /\ UNCHANGED <<input, answers, value, data, useModel, paragraph, result, shown, stack, pending>>

NextInput == ParseInput

SpecInput == InitInput /\ [][NextInput]_vars

(***************************************************************************)
(* Properties of parseInput.                                               *)
(***************************************************************************)
\* A section is in the text when a line holds its start keyword and a later
\* line holds its end keyword.
hasSection(text, open, close) ==
    LET lines == trimAll(split(text, "\n"))
    IN  \E p \in 1..Len(lines), q \in 1..Len(lines) :
            p < q /\ lines[p] = open /\ lines[q] = close

\* The first section the text lacks, in the order stmt, results, rules.
firstMissing(text) ==
    IF ~hasSection(text, stmt, endstmt) THEN "stmt"
    ELSE IF ~hasSection(text, results, endresults) THEN "results"
    ELSE IF ~hasSection(text, rules, endrules) THEN "rules"
    ELSE "none"

isMissingSection(out) == ~out.ok /\ out.error.message[1] = "Missing \""

\* C9: parseInput throws the Missing-block error exactly when a section is
\* absent from the text, naming the first absent one in the order stmt,
\* results, rules; with all three present it throws no such error.
C9_MissingSectionExactly ==
    pc # "start" =>
        IF firstMissing(input) = "none" THEN ~isMissingSection(output)
        ELSE output = MissingBlock(firstMissing(input))

\* Whether a message holds the piece `piece`.
holds(message, piece) == \E k \in 1..Len(message) : message[k] = piece

\* C10: every error that leaves parseInput starts with "Failed to parse input",
\* and an expression error comes wrapped with the rule's line behind that prefix.
C10_EveryErrorPrefixed ==
    (pc # "start" /\ ~output.ok) =>
        /\ output.error.message[1] = "Failed to parse input: "
        /\ (holds(output.error.message, "Invalid condition: \"")
               \/ holds(output.error.message, "Invalid logical expression: \""))
              => output.error.message[2] = "Error in rule at line "

\* The lines of a section: those between the first line that holds the start
\* keyword and the first later line that holds the end keyword.
sectionLines(text, open, close) ==
    LET lines == split(text, "\n")
        ps == {p \in 1..Len(lines) : trim(lines[p]) = open}
        p == CHOOSE p \in ps : \A o \in ps : p <= o
        qs == {q \in (p + 1)..Len(lines) : trim(lines[q]) = close}
        q == CHOOSE q \in qs : \A o \in qs : q <= o
    IN  IF ps = {} \/ qs = {} THEN <<>> ELSE SubSeq(lines, p + 1, q - 1)

\* The 1-based position, in a section, of its first non-blank line that
\* satisfies bad; 0 when it has none.
firstBad(lines, bad(_)) ==
    LET ks == {k \in 1..Len(lines) : trim(lines[k]) # <<>> /\ bad(lines[k])}
    IN  IF ks = {} THEN 0 ELSE CHOOSE k \in ks : \A o \in ks : k <= o

badDeclaration(line) == ~parseVariable(line, 0, "stmt").ok
badRule(line) == ~matchRule(line).matched

sectionOf(text, blockName) ==
    IF blockName = "stmt" THEN sectionLines(text, stmt, endstmt)
    ELSE IF blockName = "results" THEN sectionLines(text, results, endresults)
    ELSE sectionLines(text, rules, endrules)

\* C11: the line number in an "Invalid variable declaration" error and in an
\* "Invalid rule" error is the 1-based position of the offending line among
\* the lines of its section, blank lines counted.
C11_LineNumberIsPosition ==
    (pc # "start" /\ ~output.ok /\ Len(output.error.message) >= 5) =>
        LET m == output.error.message
        IN  /\ (m[2] = "Invalid variable declaration in "
                   /\ firstBad(sectionOf(input, m[3]), badDeclaration) > 0)
                => m[5] = ToString(firstBad(sectionOf(input, m[3]), badDeclaration))
            /\ (m[2] = "Invalid rule at line "
                   /\ firstBad(sectionOf(input, "rules"), badRule) > 0)
                => m[3] = ToString(firstBad(sectionOf(input, "rules"), badRule))

(***************************************************************************)
(* The generated page: the radios of the form, the analyze button and the  *)
(* submit handler of ruleForm with its rule engine.                        *)
(***************************************************************************)
\* allResults.find(r => r.name === name): the first result of that name, at
\* index 0 when there is none.
findResult(allResults, name) ==
    LET hits == {k \in 1..Len(allResults) : allResults[k].name = name}
    IN  IF hits = {} THEN 0 ELSE CHOOSE k \in hits : \A j \in hits : k <= j

\* rules.forEach from rule k on, lines 418-425, `selected` the running result.
RECURSIVE forEachRule(_, _, _, _, _)
forEachRule(ruleList, k, ans, allResults, selected) ==
    IF k > Len(ruleList) THEN selected
    ELSE LET rule == ruleList[k]
             resultVar == findResult(allResults, rule.result)
             next == IF evaluateExpression(rule.expression, ans) /\ resultVar > 0
                     THEN allResults[resultVar].value
                     ELSE selected
         IN  forEachRule(ruleList, k + 1, ans, allResults, next)

\* A slip: the first rule that matches and resolves wins.
selectFirstMatch(ruleList, ans, allResults) ==
    LET hits == {k \in 1..Len(ruleList) :
                    /\ evaluateExpression(ruleList[k].expression, ans)
                    /\ findResult(allResults, ruleList[k].result) > 0}
    IN  IF hits = {} THEN <<>>
        ELSE allResults[findResult(allResults,
                 ruleList[CHOOSE k \in hits : \A j \in hits : k <= j].result)].value

\* let result = ''; rules.forEach(...)
selectResult(ruleList, ans, allResults) == forEachRule(ruleList, 1, ans, allResults, <<>>)

NoIssue ==
    <<"<p>No specific issue identified. Your system may be functioning normally.</p>">>

\* Rule lines of the embedded program; r3 is not a declared result.
PageRuleLines ==
    { <<"I", "F", " ", "a", " ", "A", "N", "D", " ", "b", " ", "T", "H", "E", "N", " ", "r", "1">>,
      <<"I", "F", " ", "a", " ", "T", "H", "E", "N", " ", "r", "2">>,
      <<"I", "F", " ", "N", "O", "T", " ", "b", " ", "T", "H", "E", "N", " ", "r", "3">> }

PageStatements == <<"a", " ", "=", " ", "Q", "1", "\n", "b", " ", "=", " ", "Q", "2">>

\* Result sections: each name once, or r2 declared twice around r1.
PageResults ==
    { <<"r", "1", " ", "=", " ", "O", "1", "\n", "r", "2", " ", "=", " ", "O", "2">>,
      <<"r", "2", " ", "=", " ", "O", "2", "\n", "r", "1", " ", "=", " ", "O", "1", "\n",
        "r", "2", " ", "=", " ", "O", "3">> }

\* A program whose statement has a name Object.prototype has too.
ProtoPage ==
    parseInput(ProgramText(__proto__ \o <<" ", "=", " ", "Q", "3">>,
                           <<"r", "1", " ", "=", " ", "O", "1">>,
                           IF_ \o Sp \o __proto__ \o Sp \o THEN_ \o <<" ", "r", "1">>)).value

\* Rule sections of up to MaxRules of the rule lines, in every order, no line
\* written twice.
PageRuleSections ==
    {ls \in SeqsUpTo(PageRuleLines, MaxRules) :
        \A i, j \in 1..Len(ls) : ls[i] = ls[j] => i = j}

\* The programs the page is generated from: JSON.stringify writes the parsed
\* statements, results and rules into the script as they are.
Pages ==
    {parseInput(ProgramText(PageStatements, r, joinLines(ls))).value :
        r \in PageResults, ls \in PageRuleSections}
        \cup {ProtoPage}

statementNames(page) == {page.statements[k].name : k \in 1..Len(page.statements)}

Init ==
    /\ pc = "loaded"
    /\ input = <<>>
    /\ output = None
    /\ value = FALSE
    /\ \E page \in Pages :
          data = [rules |-> page.rules,
                  allStatements |-> page.statements,
                  allResults |-> page.results]
    /\ answers = <<>>
    /\ useModel = FALSE
    /\ paragraph = FALSE
    /\ result = <<>>
    /\ shown = <<>>
    /\ stack = NoCalls
    /\ pending = NoneWaiting

\* The user checks the Yes or the No radio of a statement.
CheckRadio ==
    /\ \E name \in statementNames([statements |-> data.allStatements]),
          v \in {"yes", "no"} :
          answers' = [n \in DOMAIN answers \cup {name} |->
                        IF n = name THEN v ELSE answers[n]]
    /\ pc' = "editing"
    /\ UNCHANGED <<input, output, value, data, useModel, paragraph, result, shown, stack, pending>>

\* loadModel: use.load() resolves.
LoadModel ==
    /\ ~useModel
    /\ useModel' = TRUE
    /\ UNCHANGED <<pc, input, output, answers, value, data, paragraph, result, shown, stack, pending>>

\* The user writes into, or empties, the description.
EditParagraph ==
    /\ paragraph' = ~paragraph
    /\ pc' = "editing"
    /\ UNCHANGED <<input, output, answers, value, data, useModel, result, shown, stack, pending>>

\* pending with one more handler h waiting. The page puts no limit on the
\* handlers that wait; every number of alike handlers above MaxPending is
\* kept as the one number Many.
awaits(h) ==
    [g \in DOMAIN pending \cup {h} |->
        IF g # h THEN pending[g]
        ELSE IF h \notin DOMAIN pending THEN 1
        ELSE IF pending[h] < Many THEN pending[h] + 1
        ELSE Many]

\* pending with one handler h less.
without(h) ==
    IF pending[h] = 1 THEN [g \in DOMAIN pending \ {h} |-> pending[g]]
    ELSE [pending EXCEPT ![h] = @ - 1]

\* What pending may be once a waiting handler h resumed: of Many, MaxPending
\* or still more than MaxPending remain.
resumed(h) == IF pending[h] = Many THEN {without(h), pending} ELSE {without(h)}

\* analyzeParagraph up to its await, lines 338-354: without a description or
\* without the model it alerts and returns; else it waits for the encoder.
Analyze ==
    /\ paragraph /\ useModel
    /\ pending' = awaits([handler |-> "analyze", result |-> <<>>])
    /\ pc' = "editing"
    /\ UNCHANGED <<input, output, answers, value, data, useModel, paragraph, result, shown, stack>>

\* analyzeParagraph behind its await, lines 355-402: the Yes radio of every
\* statement the encoder scores above the threshold is checked; which
\* statements those are is the encoder's choice (none also when embed threw).
AnalyzeResumes ==
    /\ \E h \in DOMAIN pending :
          /\ h.handler = "analyze"
          /\ pending' \in resumed(h)
    /\ \E matched \in SUBSET statementNames([statements |-> data.allStatements]) :
          answers' = [n \in DOMAIN answers \cup matched |->
                        IF n \in matched THEN "yes" ELSE answers[n]]
    /\ pc' = "editing"
    /\ UNCHANGED <<input, output, value, data, useModel, paragraph, result, shown, stack>>

\* formData.forEach((value, key) => { answers[key] = value }), lines 409-415:
\* the object made from the checked radios. An assignment to __proto__ sets
\* no own property (the setter of Object.prototype drops a string).
formAnswers(checked) == [n \in DOMAIN checked \ {__proto__} |-> checked[n]]

\* What the #result element is given, lines 460-461.
display(final) == IF final = <<>> THEN NoIssue ELSE final

\* The submit handler up to its await, lines 407-432: the rule engine on the
\* checked radios; without a description or without the model it goes on to
\* the #result element at once, else it waits for the encoder.
Submit ==
    /\ result' = selectResult(data.rules, formAnswers(answers), data.allResults)
    /\ IF paragraph /\ useModel
       THEN /\ pending' = awaits([handler |-> "submit", result |-> result'])
            /\ UNCHANGED shown
       ELSE /\ shown' = display(result')
            /\ UNCHANGED pending
    /\ pc' = "submitted"
    /\ UNCHANGED <<input, output, answers, value, data, useModel, paragraph, stack>>

\* The submit handler behind its await, lines 433-461: the result text the
\* encoder scores best and above 0.4 (0: none does, or embed threw) takes the
\* place of the result the handler computed when it began.
SubmitResumes ==
    /\ \E h \in DOMAIN pending, best \in 0..Len(data.allResults) :
          /\ h.handler = "submit"
          /\ pending' \in resumed(h)
          /\ shown' = display(IF best > 0 THEN data.allResults[best].value
                              ELSE h.result)
    /\ pc' = "editing"
    /\ UNCHANGED <<input, output, answers, value, data, useModel, paragraph, result, stack>>

Next ==
    \/ CheckRadio \/ LoadModel \/ EditParagraph
    \/ Analyze \/ AnalyzeResumes \/ Submit \/ SubmitResumes

Spec == Init /\ [][Next]_vars

(***************************************************************************)
(* Properties of the rule engine.                                          *)
(***************************************************************************)
\* The rules that match the answers and name a declared result.
firing(ruleList, ans, allResults) ==
    {k \in 1..Len(ruleList) :
        /\ evaluateExpression(ruleList[k].expression, ans)
        /\ \E j \in 1..Len(allResults) : allResults[j].name = ruleList[k].result}

\* The text of the declared result of that name.
textOf(allResults, name) ==
    allResults[CHOOSE j \in 1..Len(allResults) :
                  /\ allResults[j].name = name
                  /\ \A i \in 1..(j - 1) : allResults[i].name # name].value

a_AND_b_r1 == Logical(AND, Cond(<<"a">>, FALSE), Cond(<<"b">>, FALSE))
ExampleRules ==
    << [expression |-> a_AND_b_r1, result |-> <<"r", "1">>],
       [expression |-> Cond(<<"a">>, FALSE), result |-> <<"r", "2">>] >>

\* C1: after the rules are iterated, the selected result is the text of the
\* result named by the last rule, in declaration order, that matches and whose
\* result resolves; it is empty when no rule does.  With the rules
\* [IF a AND b THEN r1, IF a THEN r2], a = yes selects r2's text whatever b is,
\* and a = no selects nothing.
C1_LastResolvableMatchWins ==
    pc = "submitted" =>
        LET fired == firing(data.rules, formAnswers(answers), data.allResults)
            last == CHOOSE k \in fired : \A j \in fired : k >= j
        IN  /\ result = IF fired = {} THEN <<>>
                        ELSE textOf(data.allResults, data.rules[last].result)
            /\ (data.rules = ExampleRules /\ lookup(answers, <<"a">>) = "yes")
                  => result = textOf(data.allResults, <<"r", "2">>)
            /\ (data.rules = ExampleRules /\ lookup(answers, <<"a">>) = "no")
                  => result = <<>>

\* C1's case: both example rules match and the later one's result is selected.
C1_Witness ==
    /\ pc = "submitted"
    /\ data.rules = ExampleRules
    /\ lookup(answers, <<"a">>) = "yes"
    /\ lookup(answers, <<"b">>) = "yes"
    /\ result = <<"O", "2">>

(***************************************************************************)
(* parseExpression call by call: every call of the function is one step.   *)
(* stack.calls holds what is left to do, the next at the head: a text a    *)
(* call is to be made on, or an operator whose two sides are being parsed; *)
(* stack.values holds the trees returned so far, the latest at the head.   *)
(***************************************************************************)
callOn(str) == [kind |-> "call", arg |-> str]
nodeOf(operator) == [kind |-> "node", arg |-> operator]

\* A slip: the wrapped text handed on with its parentheses.
sliceNothing(exprStr) == exprStr

\* exprStr.slice(1, -1)
sliceInner(exprStr) == substring(exprStr, 1, Len(exprStr) - 1)

\* The trimmed text of the call at the head, and the operator index in it.
current == trim(stack.calls[1].arg)
calling == pc = "running" /\ stack.calls # <<>> /\ stack.calls[1].kind = "call"
leftOf(exprStr) == trim(substring(exprStr, 0, findOperator(exprStr)))
rightOf(exprStr) == trim(substringFrom(exprStr, findOperator(exprStr) + 3))

Untouched ==
    UNCHANGED <<input, answers, value, data, useModel, paragraph, result, shown, pending>>

\* parseInput's caller hands the condition text to parseExpression.
Invoke ==
    /\ pc = "start"
    /\ pc' = "running"
    /\ stack' = [calls |-> <<callOn(input)>>, values |-> <<>>]
    /\ UNCHANGED output
    /\ Untouched

\* Lines 86-88: the call returns what the call on the inner text returns.
Strip ==
    /\ calling
    /\ isWrapped(current)
    /\ stack' = [stack EXCEPT !.calls = <<callOn(sliceInner(current))>> \o Tail(@)]
    /\ UNCHANGED <<pc, output>>
    /\ Untouched

\* Lines 95-110 with both sides present: the left side is parsed, then the
\* right side, then the node is made.
Split ==
    /\ calling
    /\ ~isWrapped(current)
    /\ findOperator(current) >= 0
    /\ leftOf(current) # <<>> /\ rightOf(current) # <<>>
    /\ stack' = [stack EXCEPT !.calls =
                    <<callOn(leftOf(current)), callOn(rightOf(current)),
                      nodeOf(operatorAt(current, findOperator(current)))>> \o Tail(@)]
    /\ UNCHANGED <<pc, output>>
    /\ Untouched

\* Lines 99-104: a side is missing; the throw leaves every call under way.
SplitThrows ==
    /\ calling
    /\ ~isWrapped(current)
    /\ findOperator(current) >= 0
    /\ leftOf(current) = <<>> \/ rightOf(current) = <<>>
    /\ output' = splitAt(current, operatorAt(current, findOperator(current)),
                         leftOf(current), rightOf(current))
    /\ pc' = "thrown"
    /\ stack' = NoCalls
    /\ Untouched

\* Lines 115-118: no operator at depth 0, the call returns a Condition leaf.
Leaf ==
    /\ calling
    /\ ~isWrapped(current)
    /\ findOperator(current) < 0
    /\ parseCondition(current).ok
    /\ stack' = [calls |-> Tail(stack.calls),
                 values |-> <<conditionNode(parseCondition(current)).value>>
                                \o stack.values]
    /\ UNCHANGED <<pc, output>>
    /\ Untouched

\* Lines 77-79 under line 117: parseCondition throws.
LeafThrows ==
    /\ calling
    /\ ~isWrapped(current)
    /\ findOperator(current) < 0
    /\ ~parseCondition(current).ok
    /\ output' = conditionNode(parseCondition(current))
    /\ pc' = "thrown"
    /\ stack' = NoCalls
    /\ Untouched

\* Lines 105-110: both sides have returned, the call returns the Logical node.
Node ==
    /\ pc = "running"
    /\ stack.calls # <<>>
    /\ stack.calls[1].kind = "node"
    /\ stack' = [calls |-> Tail(stack.calls),
                 values |-> <<logicalNode(stack.calls[1].arg, Ok(stack.values[2]),
                                          Ok(stack.values[1])).value>>
                                \o Tail(Tail(stack.values))]
    /\ UNCHANGED <<pc, output>>
    /\ Untouched

\* The outermost call returns its tree.
Return ==
    /\ pc = "running"
    /\ stack.calls = <<>>
    /\ output' = Ok(stack.values[1])
    /\ pc' = "returned"
    /\ stack' = NoCalls
    /\ Untouched

NextCalls ==
    Invoke \/ Strip \/ Split \/ SplitThrows \/ Leaf \/ LeafThrows \/ Node \/ Return

\* Condition texts the calls are followed on: chains of up to MaxNesting
\* operands, the texts with a missing side or an empty leaf, the wrapped
\* operands, and the three-operand texts of the documentation.
CallIds == {<<"a">>, <<"b">>}

RECURSIVE CallChains(_)
CallChains(n) ==
    IF n <= 1 THEN CallIds
    ELSE {id \o Sp \o op \o Sp \o rest :
            id \in CallIds, op \in Operators, rest \in CallChains(n - 1)}

CallInputs ==
    UNION {CallChains(n) : n \in 1..MaxNesting}
        \cup OddInputs \cup {Paren(atom) : atom \in Atoms}
        \cup {A_AND_B_OR_C, A_OR_B_AND_C, ReadmeCondition}

InitCalls ==
    /\ pc = "start"
    /\ input \in CallInputs
    /\ output = None
    /\ answers = <<>>
    /\ value = FALSE
    /\ PageIdle

\* JavaScript runs a call to its end: a call that has begun takes its next
\* step, nothing else is scheduled between the steps.
SpecCalls == InitCalls /\ [][NextCalls]_vars /\ WF_vars(NextCalls)

\* The steps give what the function gives.
StepsAgree == pc \in {"returned", "thrown"} => output = parseExpression(input)

\* The number of nodes of a tree.
RECURSIVE nodes(_)
nodes(expr) ==
    IF expr.type = "condition" THEN 1 ELSE 1 + nodes(expr.left) + nodes(expr.right)

\* The calls a step has put at the head of stack.calls.
begun == 1..(Len(stack'.calls) - Len(stack.calls) + 1)

\* C13: every call parseExpression makes on itself, on the text inside a
\* stripped parenthesis pair or on the left or right side of a split, gets a
\* text strictly shorter than the caller's trimmed text; every run ends, with a
\* tree returned or an error thrown, and a returned tree has no more nodes
\* than the trimmed input has characters.
C13_Terminates ==
    /\ [][calling => \A k \in begun :
                        stack'.calls[k].kind = "call"
                            => Len(stack'.calls[k].arg) < Len(current)]_vars
    /\ <>(pc \in {"returned", "thrown"})
    /\ [](pc = "returned" => nodes(output.value) <= Len(trim(input)))

\* C13's case: a text in parentheses that holds an operator has been parsed
\* through a strip and a split, and its tree returned.
C13_Witness ==
    /\ pc = "returned"
    /\ isWrapped(trim(input))
    /\ output.value.type = "logical"

====
